---- MODULE Spec2Model ----
(***************************************************************************)
(* CDC latest-state resolution of src/tools/utils.py: dedup_by and         *)
(* normalize_cdc_latest, driven over bounded batches of change events.     *)
(*                                                                         *)
(* A DataFrame is a bag of rows: Spark gives it no row order.  The order   *)
(* in which the engine happens to hold the rows when the window function   *)
(* numbers them (its physical order) is chosen by the engine, so every     *)
(* call draws it nondeterministically.  A row is a function from column    *)
(* names to nullable values; a nullable value is <<>> (null) or <<v>>.     *)
(***************************************************************************)
EXTENDS Bags, FiniteSets, Integers, Sequences, TLC

VARIABLES df, pc, step, tiebreakers, keys, latest, prevDf, prevLatest,
          args, day, last, files

\* the state of the fixture generator, src/tools/generate_data.py: main's
\* arguments, the CDC day written last, the last_customers list and the
\* rows written for each day
genVars == <<args, day, last, files>>

vars == <<df, pc, step, tiebreakers, keys, latest, prevDf, prevLatest,
          args, day, last, files>>

(* ------------------------------ bounds -------------------------------- *)

\* rows delivered in one batch
MaxLen == 2
\* largest seq_num in a batch
MaxSeq == 2
\* largest event_time in a batch (days after T0)
MaxTs == 2
\* customers the generator is asked for (--customers)
MaxCustomers == 2
\* CDC days the generator writes (--cdc-days, at its default)
CdcDays == 3

(* ------------------------------ values -------------------------------- *)

Null == <<>>

Some(v) == <<v>>

IsNull(x) == x = Null

KeyVals == {Some("K1"), Null}

OpVals == {Some("U"), Some("D")}

SeqVals == {Null} \cup {Some(n) : n \in 1..MaxSeq}

TsVals == {Null} \cup {Some(n) : n \in 1..MaxTs}

Columns == {"key", "op", "seq_num", "event_time"}

Rows == [key : KeyVals, op : OpVals, seq_num : SeqVals, event_time : TsVals]

\* Spark's ordering of the values of one column: integers by value, strings
\* lexicographically ("D" < "I" < "K1" < "U").
StrOrd(s) == CASE s = "D" -> 1 [] s = "I" -> 2 [] s = "K1" -> 3
               [] s = "U" -> 4 [] OTHER -> 0

NumericColumns == {"seq_num", "event_time", "_rn"}

\* value a of column c is greater than value b of column c
ValGt(c, a, b) ==
  IF c \in NumericColumns THEN a > b ELSE StrOrd(a) > StrOrd(b)

(* ----------------------------- DataFrames ----------------------------- *)

Range(s) == {s[i] : i \in DOMAIN s}

NoRows == SetToBag({})

\* df with n more copies of row r
AddRows(b, r, n) ==
  [x \in DOMAIN b \cup {r} |->
     IF x \in DOMAIN b THEN b[x] + (IF x = r THEN n ELSE 0) ELSE n]

\* the orders in which the engine may hold the rows of b
PhysicalOrders(b) ==
  {s \in [1..BagCardinality(b) -> BagToSet(b)] :
     \A r \in BagToSet(b) : Cardinality({i \in DOMAIN s : s[i] = r}) = b[r]}

DfColumns(b) == IF BagToSet(b) = {} THEN Columns
                ELSE DOMAIN (CHOOSE r \in BagToSet(b) : TRUE)

WithColumn(r, c, v) == [x \in DOMAIN r \cup {c} |-> IF x = c THEN v ELSE r[x]]

\* a drop that leaves the column in place
DropNothing(r, c) == r

\* DataFrame.drop(c), on one row
Drop(r, c) == [x \in DOMAIN r \ {c} |-> r[x]]

\* rows r and q agree on every column of cols (null equals null, as in
\* Spark's grouping)
SameOn(r, q, cols) == \A c \in cols : r[c] = q[c]

\* a deduplication that removes one copy from every class that has more
\* than one row, instead of all but one
DropOneDuplicate(b, subset) ==
  LET rows    == BagToSet(b)
      classes == {{q \in rows : SameOn(r, q, subset)} : r \in rows}
      Size(r) == BagCardinality([q \in {x \in rows : SameOn(r, x, subset)}
                                   |-> b[q]])
      Cut(T)  == [r \in rows |->
                    b[r] - (IF r \in T /\ Size(r) > 1 THEN 1 ELSE 0)]
  IN  {[r \in {x \in rows : Cut(T)[x] > 0} |-> Cut(T)[r]] :
         T \in {U \in SUBSET rows :
                  \A cl \in classes : Cardinality(U \cap cl) = 1}}

\* df.dropDuplicates(subset): one row of each class of rows that agree on
\* subset; which one is the engine's choice.
DropDuplicates(b, subset) ==
  LET rows    == BagToSet(b)
      classes == {{q \in rows : SameOn(r, q, subset)} : r \in rows}
  IN  {SetToBag(S) : S \in {T \in SUBSET rows :
                              \A cl \in classes : Cardinality(T \cap cl) = 1}}

\* a dedup_by that falls back to the key column instead of all columns
dedup_by_key_only(b, ks) ==
  DropDuplicates(b, IF ks # <<>> THEN Range(ks) ELSE {"key"})

\* dedup_by(spark_session, df, *keys)
dedup_by(b, ks) ==
  DropDuplicates(b, IF ks # <<>> THEN Range(ks) ELSE DfColumns(b))

(* ------------------------------ ranking ------------------------------- *)

\* Column.desc_nulls_first(): null before every non-null value
desc_nulls_first(c, a, b) ==
  /\ ~IsNull(b)
  /\ (IsNull(a) \/ ValGt(c, a[1], b[1]))

\* Column.desc_nulls_last(): value a of column c sorts strictly before
\* value b (greater first, null after every non-null value).
desc_nulls_last(c, a, b) ==
  /\ ~IsNull(a)
  /\ (IsNull(b) \/ ValGt(c, a[1], b[1]))

\* an order_exprs that ranks by event time before sequence number
order_exprs_ts_first(seq_col, ts_col, tb) == <<ts_col, seq_col>> \o tb

\* order_exprs of normalize_cdc_latest, as the list of columns compared
order_exprs(seq_col, ts_col, tb) == <<seq_col, ts_col>> \o tb

\* building order_exprs calls desc_null_lasts() on every tiebreaker column;
\* Column has no such method, so the call raises as soon as there is one.
OrderExprsRaise(tb) == Len(tb) > 0

\* row r sorts strictly before row q under orderBy(*order)
Before(r, q, order) ==
  \E i \in DOMAIN order :
    /\ \A j \in 1..(i - 1) : r[order[j]] = q[order[j]]
    /\ desc_nulls_last(order[i], r[order[i]], q[order[i]])

\* a partitionBy that keeps only the first of several key columns
partitionByFirst(key_col) == {key_col[1]}

\* W.partitionBy(key_col): the columns the window partitions by.  key_col
\* is written as the list of column names partitionBy receives: a str
\* names one column, a list of str names each of its columns.
partitionBy(key_col) == Range(key_col)

\* F.rank() in place of F.row_number(): tied rows share a rank
RankNumber(phys, i, key_col, order) ==
  1 + Cardinality({j \in DOMAIN phys :
        /\ SameOn(phys[j], phys[i], partitionBy(key_col))
        /\ Before(phys[j], phys[i], order)})

\* F.row_number().over(W.partitionBy(key_col).orderBy(*order)) of the row
\* the engine holds at position i of phys; rows the ordering leaves tied
\* keep the engine's order.
RowNumber(phys, i, key_col, order) ==
  1 + Cardinality({j \in DOMAIN phys :
        /\ SameOn(phys[j], phys[i], partitionBy(key_col))
        /\ \/ Before(phys[j], phys[i], order)
           \/ (~Before(phys[i], phys[j], order) /\ j < i)})

\* base.withColumn("_rn", F.row_number().over(w))
Ranked(phys, key_col, order) ==
  [i \in DOMAIN phys |->
     WithColumn(phys[i], "_rn", Some(RowNumber(phys, i, key_col, order)))]

\* a filter that also removes the keys whose latest event is a delete
FilterRnLive(ranked) ==
  {i \in DOMAIN ranked :
     ranked[i]["_rn"] = Some(1) /\ ranked[i]["op"] # Some("D")}

\* the rows of ranked that pass filter(F.col("_rn") == 1)
FilterRn(ranked) == {i \in DOMAIN ranked : ranked[i]["_rn"] = Some(1)}

\* ranked.filter(F.col("_rn") == 1).drop("_rn")
Latest(ranked) ==
  LET sel == FilterRn(ranked)
      out == {Drop(ranked[i], "_rn") : i \in sel}
  IN  [r \in out |-> Cardinality({i \in sel : Drop(ranked[i], "_rn") = r})]

\* the columns the window names that df does not have; withColumn raises
\* AnalysisException when there is one.
UnresolvedColumns(b, key_col, order) ==
  (partitionBy(key_col) \cup Range(order)) \ DfColumns(b)

\* a resolution that leaves a missing ordering column out of the comparison
\* instead of raising
normalize_cdc_latest_degraded(b, key_col, seq_col, ts_col, tb) ==
  LET present(c) == c \in DfColumns(b)
      order == SelectSeq(order_exprs(seq_col, ts_col, tb), present)
  IN  IF OrderExprsRaise(tb) \/ partitionBy(key_col) \ DfColumns(b) # {}
      THEN {[ok |-> FALSE, rows |-> NoRows]}
      ELSE UNION {
             {[ok |-> TRUE, rows |-> Latest(Ranked(phys, key_col, order))] :
                phys \in PhysicalOrders(base)} :
             base \in dedup_by(b, <<>>)}

\* normalize_cdc_latest(spark_session, df, key_col, seq_col, ts_col,
\* tiebreakers): the results the call can have, one per choice the engine
\* has; ok = FALSE is the call raising.
normalize_cdc_latest(b, key_col, seq_col, ts_col, tb) ==
  IF \/ OrderExprsRaise(tb)
     \/ UnresolvedColumns(b, key_col, order_exprs(seq_col, ts_col, tb)) # {}
  THEN {[ok |-> FALSE, rows |-> NoRows]}
  ELSE UNION {
         {[ok |-> TRUE,
           rows |-> Latest(Ranked(phys, key_col,
                                  order_exprs(seq_col, ts_col, tb)))] :
            phys \in PhysicalOrders(base)} :
         base \in dedup_by(b, <<>>)}

(* ------------------------------ the driver ---------------------------- *)

\* the arguments of the calls: key_col, and the defaults of seq_col, ts_col
KeyCol == "key"

SeqCol == "seq_num"

TsCol == "event_time"

TiebreakerArgs == {<<>>, <<"op">>}

KeyArgs == {<<>>, <<"key">>, <<"key", "seq_num">>}

\* main's defaults of --update-rate and --delete-rate, in percent
DefaultArgs == [customers |-> MaxCustomers, update_rate |-> 15, delete_rate |-> 3]

Init ==
  /\ df = NoRows
  /\ pc = "ready"
  /\ step = "first"
  /\ tiebreakers = <<>>
  /\ keys = <<>>
  /\ latest = NoRows
  /\ prevDf = NoRows
  /\ prevLatest = NoRows
  /\ args = DefaultArgs
  /\ day = 0
  /\ last = <<>>
  /\ files = <<>>

\* the caller puts one more row into the batch it will pass as df: any bag
\* of at most MaxLen rows is a batch
Arrive ==
  /\ pc = "ready"
  /\ step = "first"
  /\ BagCardinality(df) < MaxLen
  /\ \E r \in Rows : df' = AddRows(df, r, 1)
  /\ UNCHANGED <<pc, step, tiebreakers, keys, latest, prevDf, prevLatest>>
  /\ UNCHANGED genVars

\* latest = normalize_cdc_latest(spark, df, "key", tiebreakers=tb)
NormalizeCdcLatest ==
  /\ pc = "ready"
  /\ \E tb \in (IF step = "first" THEN TiebreakerArgs ELSE {tiebreakers}) :
       \E res \in normalize_cdc_latest(df, <<KeyCol>>, SeqCol, TsCol, tb) :
         /\ tiebreakers' = tb
         /\ latest' = res.rows
         /\ pc' = IF res.ok THEN "returned" ELSE "raised"
  /\ UNCHANGED <<df, step, keys, prevDf, prevLatest>>
  /\ UNCHANGED genVars

\* the same batch is delivered again with its rows in another order
Permute ==
  /\ pc = "returned"
  /\ step = "first"
  /\ df' = df
  /\ prevDf' = df
  /\ prevLatest' = latest
  /\ pc' = "ready"
  /\ step' = "permuted"
  /\ UNCHANGED <<tiebreakers, keys, latest>>
  /\ UNCHANGED genVars

\* the batch comes again after duplicate_rows(rows, dupe_rate): every row
\* of the batch is copied or not, each on its own, so of a row the batch
\* holds n times up to n copies are added, and possibly none of any row
InjectDuplicates ==
  /\ pc = "returned"
  /\ step = "first"
  /\ \E extra \in [BagToSet(df) -> 0..MaxLen] :
       /\ \A r \in BagToSet(df) : extra[r] <= df[r]
       /\ df' = [r \in BagToSet(df) |-> df[r] + extra[r]]
  /\ prevDf' = df
  /\ prevLatest' = latest
  /\ pc' = "ready"
  /\ step' = "duplicated"
  /\ UNCHANGED <<tiebreakers, keys, latest>>
  /\ UNCHANGED genVars

\* the resolved output is resolved again
Reresolve ==
  /\ pc = "returned"
  /\ step = "first"
  /\ df' = latest
  /\ prevDf' = df
  /\ prevLatest' = latest
  /\ pc' = "ready"
  /\ step' = "resolved"
  /\ UNCHANGED <<tiebreakers, keys, latest>>
  /\ UNCHANGED genVars

\* latest = dedup_by(spark, df, *ks)
DedupBy ==
  /\ pc = "ready"
  /\ step \in {"first", "duplicated"}
  /\ \E ks \in KeyArgs :
       /\ keys' = ks
       /\ latest' \in dedup_by(df, ks)
  /\ pc' = "deduped"
  /\ UNCHANGED <<df, step, tiebreakers, prevDf, prevLatest>>
  /\ UNCHANGED genVars

\* latest = dedup_by(spark, latest, *keys)
DedupAgain ==
  /\ pc = "deduped"
  /\ latest' \in dedup_by(latest, keys)
  /\ df' = latest
  /\ prevDf' = df
  /\ prevLatest' = latest
  /\ pc' = "deduped2"
  /\ UNCHANGED <<step, tiebreakers, keys>>
  /\ UNCHANGED genVars

\* the batch of an entity type arrives without column c
DropColumn(b, c) ==
  LET rows == {Drop(r, c) : r \in BagToSet(b)}
  IN  [q \in rows |->
         BagCardinality([r \in {x \in BagToSet(b) : Drop(x, c) = q} |-> b[r]])]

\* one entity type's batch lacks a column the call names; the complete
\* batch df stays behind as the batch of another entity type of the run
LoseColumn ==
  /\ pc = "ready"
  /\ step = "first"
  /\ BagToSet(df) # {}
  /\ \E c \in {KeyCol, SeqCol, TsCol} : df' = DropColumn(df, c)
  /\ prevDf' = df
  /\ step' = "lost"
  /\ UNCHANGED <<pc, tiebreakers, keys, latest, prevLatest>>
  /\ UNCHANGED genVars

\* the run goes on, after the failed call, to the other entity type's batch
NextEntity ==
  /\ pc = "raised"
  /\ step = "lost"
  /\ df' = prevDf
  /\ prevDf' = df
  /\ prevLatest' = latest
  /\ pc' = "ready"
  /\ step' = "next"
  /\ UNCHANGED <<tiebreakers, keys, latest>>
  /\ UNCHANGED genVars

\* the columns of a key made of two columns
CompositeKey == <<"key", "op">>

\* latest = normalize_cdc_latest(spark, df, ["key", "op"])
NormalizeCompositeKey ==
  /\ pc = "ready"
  /\ step = "first"
  /\ \E res \in normalize_cdc_latest(df, CompositeKey, SeqCol, TsCol, <<>>) :
       /\ latest' = res.rows
       /\ pc' = IF res.ok THEN "returned" ELSE "raised"
  /\ step' = "composite"
  /\ UNCHANGED <<df, tiebreakers, keys, prevDf, prevLatest>>
  /\ UNCHANGED genVars

Next ==
  \/ Arrive
  \/ NormalizeCdcLatest
  \/ Permute
  \/ InjectDuplicates
  \/ Reresolve
  \/ DedupBy
  \/ DedupAgain

Spec == Init /\ [][Next]_vars

\* a run over two entity types, the first with a column missing
NextSchema ==
  \/ Arrive
  \/ LoseColumn
  \/ NormalizeCdcLatest
  \/ NextEntity

SpecSchema == Init /\ [][NextSchema]_vars

\* calls with a key of two columns
NextComposite ==
  \/ Arrive
  \/ NormalizeCompositeKey

SpecComposite == Init /\ [][NextComposite]_vars

(* ------------------------- the fixture generator ---------------------- *)

\* the values of --update-rate and --delete-rate, in percent: the defaults,
\* and a larger rate each, under which a day of few rows has deletes and
\* more than one update
UpdateRates == {15, 50}

DeleteRates == {3, 25}

Max(a, b) == IF a >= b THEN a ELSE b

Min(a, b) == IF a <= b THEN a ELSE b

\* int(n * rate), the rate in percent
IntOfShare(n, rate) == (n * rate) \div 100

\* the rows of a list at the positions P, in list order
Pick(rows, P) ==
  LET f == CHOOSE g \in [1..Cardinality(P) -> P] :
             \A i, j \in 1..Cardinality(P) : i < j => g[i] < g[j]
  IN  [i \in 1..Cardinality(P) |-> rows[f[i]]]

\* random.sample(rows, k): the rows at k distinct positions of the list, in
\* the order the random generator draws them
Samples(rows, k) ==
  {[i \in 1..k |-> rows[f[i]]] :
     f \in {g \in [1..k -> DOMAIN rows] :
              \A i, j \in 1..k : i # j => g[i] # g[j]}}

\* gen_customers_base(n_customers, ...): n rows with distinct customerId;
\* of a row only the key and the CDC columns op and seqNum are kept
gen_customers_base(n) == [i \in 1..n |-> [customerId |-> i]]

\* duplicate_rows(rows, dupe_rate): the rows, then a copy of each row the
\* random generator picks
duplicate_rows(rows) ==
  {rows \o Pick(rows, P) : P \in SUBSET DOMAIN rows}

\* attach_insert_cdc(rows, file_date, late_rate)
attach_insert_cdc(rows) ==
  [i \in DOMAIN rows |->
     [customerId |-> rows[i].customerId, op |-> "I", seqNum |-> 1]]

\* the update event built on row r
UpdateOf(r) == [r EXCEPT !.op = "U", !.seqNum = r.seqNum + 1]

\* the delete event built on row r
DeleteOf(r) == [r EXCEPT !.op = "D", !.seqNum = r.seqNum + 1]

\* make_updates_deletes(previous_rows, file_date, update_rate, delete_rate,
\* late_rate, table): the lists it can return
make_updates_deletes(previous_rows, update_rate, delete_rate) ==
  IF previous_rows = <<>>
  THEN {<<>>}
  ELSE LET n     == Len(previous_rows)
           k_upd == Max(1, IntOfShare(n, update_rate))
           k_del == Max(0, IntOfShare(n, delete_rate))
       IN  UNION {
             {[i \in DOMAIN su |-> UpdateOf(su[i])] \o
              [i \in DOMAIN sd |-> DeleteOf(sd[i])] :
                sd \in Samples(previous_rows, Min(k_del, n))} :
             su \in Samples(previous_rows, Min(k_upd, n))}

InitGen ==
  /\ df = NoRows
  /\ pc = "ready"
  /\ step = "first"
  /\ tiebreakers = <<>>
  /\ keys = <<>>
  /\ latest = NoRows
  /\ prevDf = NoRows
  /\ prevLatest = NoRows
  /\ args \in [customers : 1..MaxCustomers, update_rate : UpdateRates,
               delete_rate : DeleteRates]
  /\ day = 0
  /\ last = <<>>
  /\ files = <<>>

\* main, day 1: the base rows with the duplicates duplicate_rows adds, all
\* inserts
Day1 ==
  /\ day = 0
  /\ \E rows \in duplicate_rows(gen_customers_base(args.customers)) :
       /\ last' = attach_insert_cdc(rows)
       /\ files' = <<attach_insert_cdc(rows)>>
  /\ day' = 1
  /\ UNCHANGED <<df, pc, step, tiebreakers, keys, latest, prevDf, prevLatest,
                 args>>

\* main, one pass of the loop over the later CDC days: the day's mutations
\* are written and appended to last_customers
NextDay ==
  /\ day >= 1
  /\ day < CdcDays
  /\ \E mut \in make_updates_deletes(last, args.update_rate,
                                      args.delete_rate) :
       /\ last' = last \o mut
       /\ files' = Append(files, mut)
  /\ day' = day + 1
  /\ UNCHANGED <<df, pc, step, tiebreakers, keys, latest, prevDf, prevLatest,
                 args>>

NextGen ==
  \/ Day1
  \/ NextDay

SpecGen == InitGen /\ [][NextGen]_vars

(* ------------------------------ properties ---------------------------- *)

KeysOf(b) == {r[KeyCol] : r \in BagToSet(b)}

RowsOfKey(b, k) == {r \in BagToSet(b) : r[KeyCol] = k}

\* number of records b holds for key k
CountOfKey(b, k) == BagCardinality([r \in RowsOfKey(b, k) |-> b[r]])

OnePerKey(b) == \A k \in KeysOf(b) : CountOfKey(b, k) = 1

\* the rows of key k that no other row of the key precedes in the order
\* seq_num desc nulls last, event_time desc nulls last
TopOfKey(b, k) ==
  {r \in RowsOfKey(b, k) :
     \A q \in RowsOfKey(b, k) : ~Before(q, r, <<SeqCol, TsCol>>)}

\* a is not smaller than b in the declared tiebreaker columns tb, compared
\* in order, each descending with nulls last
NotBelowOn(a, b, tb) ==
  ~\E i \in DOMAIN tb :
     /\ \A j \in 1..(i - 1) : a[tb[j]] = b[tb[j]]
     /\ /\ ~IsNull(b[tb[i]])
        /\ (IsNull(a[tb[i]]) \/ ValGt(tb[i], b[tb[i]][1], a[tb[i]][1]))

\* C1: determinism. Resolving the same batch with its rows in another order
\* yields the same output set as before.
C1_Determinism ==
  (pc = "returned" /\ step = "permuted") => latest = prevLatest

\* C2: duplicate invariance. Resolving the batch with exact copies of some
\* of its rows added yields the same output as resolving the batch itself.
C2_DuplicateInvariance ==
  (pc = "returned" /\ step = "duplicated" /\ df # prevDf) =>
    latest = prevLatest

\* C3: a returned call holds exactly one record for each distinct value of
\* the key column in its input, the null key counting as one value, and no
\* record of a key the input does not have.
C3_OneRecordPerKey ==
  pc = "returned" =>
    /\ KeysOf(latest) = KeysOf(df)
    /\ OnePerKey(latest)
    /\ BagCardinality(latest) = Cardinality(KeysOf(df))

C3_Witness ==
  /\ pc = "returned"
  /\ KeysOf(df) = {Some("K1"), Null}
  /\ BagCardinality(df) = 3
  /\ BagCardinality(latest) = 2

\* C4: for every key with an event whose seq_num is not null, the resolved
\* record of the key has the greatest non-null seq_num of the key's events,
\* whatever their event_time.
C4_SeqOutranksTime ==
  pc = "returned" =>
    \A k \in KeysOf(df) :
      (\E q \in RowsOfKey(df, k) : ~IsNull(q[SeqCol])) =>
        /\ RowsOfKey(latest, k) # {}
        /\ \A r \in RowsOfKey(latest, k) :
             /\ ~IsNull(r[SeqCol])
             /\ \A q \in RowsOfKey(df, k) :
                  ~IsNull(q[SeqCol]) => r[SeqCol][1] >= q[SeqCol][1]

C4_Witness ==
  /\ pc = "returned"
  /\ \E a, b \in BagToSet(df) :
       /\ a[KeyCol] = b[KeyCol]
       /\ a[SeqCol] = Some(2) /\ a[TsCol] = Some(1)
       /\ b[SeqCol] = Some(1) /\ b[TsCol] = Some(2)
       /\ a \in BagToSet(latest)

\* C5: nulls sort last. The resolved record of a key has a null seq_num only
\* if every event of the key has, and among the key's events with the
\* resolved record's seq_num it has a null event_time only if all of them
\* have.
C5_NullsLast ==
  pc = "returned" =>
    \A r \in BagToSet(latest) :
      \A q \in RowsOfKey(df, r[KeyCol]) :
        /\ IsNull(r[SeqCol]) => IsNull(q[SeqCol])
        /\ (q[SeqCol] = r[SeqCol] /\ IsNull(r[TsCol])) => IsNull(q[TsCol])

C5_Witness ==
  /\ pc = "returned"
  /\ \E a, b \in BagToSet(df) :
       /\ a[KeyCol] = b[KeyCol]
       /\ IsNull(a[SeqCol]) /\ a[TsCol] = Some(2)
       /\ b[SeqCol] = Some(1) /\ b[TsCol] = Some(1)
       /\ b \in BagToSet(latest)
       /\ a \notin BagToSet(latest)

\* C6: a call with a non-empty tiebreakers list completes, and among the
\* events of a key that are equal on seq_num and event_time its record is
\* greatest on the tiebreaker columns in declared order, descending with
\* nulls last.
C6_TiebreakerOrdering ==
  (pc \in {"returned", "raised"} /\ tiebreakers # <<>>) =>
    /\ pc = "returned"
    /\ \A r \in BagToSet(latest) :
         /\ r \in TopOfKey(df, r[KeyCol])
         /\ \A q \in TopOfKey(df, r[KeyCol]) : NotBelowOn(r, q, tiebreakers)

\* C7: a key whose rank-1 event is a delete keeps its record, with op =
\* Delete: when every event the ordering puts first for a key is a delete,
\* the output holds one record for the key and it is a delete.
C7_DeleteRetention ==
  pc = "returned" =>
    \A k \in KeysOf(df) :
      (\A r \in TopOfKey(df, k) : r["op"] = Some("D")) =>
        /\ CountOfKey(latest, k) = 1
        /\ \A r \in RowsOfKey(latest, k) :
             r["op"] = Some("D") /\ r \in TopOfKey(df, k)

C7_Witness ==
  /\ pc = "returned"
  /\ \E a, b \in BagToSet(df) :
       /\ a[KeyCol] = b[KeyCol]
       /\ a["op"] = Some("U") /\ a[SeqCol] = Some(1)
       /\ b["op"] = Some("D") /\ b[SeqCol] = Some(2)
       /\ BagToSet(latest) = {b}

\* C8: dedup_by without key columns returns each distinct row of its input
\* exactly once: rows that differ in any column all survive, and it returns
\* no row its input does not hold.
C8_WholeRowDedup ==
  (pc = "deduped" /\ keys = <<>>) =>
    /\ BagToSet(latest) = BagToSet(df)
    /\ \A r \in BagToSet(latest) : latest[r] = 1

C8_Witness ==
  /\ pc = "deduped"
  /\ keys = <<>>
  /\ \E a, b \in BagToSet(df) :
       /\ a[KeyCol] = b[KeyCol]
       /\ a["op"] # b["op"]
       /\ df[a] = 2
       /\ latest = SetToBag({a, b})

\* C9: dedup_by applied, with the same key arguments, to its own result
\* returns that result.
C9_DedupIdempotent ==
  pc = "deduped2" => latest = prevLatest

C9_Witness ==
  /\ pc = "deduped2"
  /\ keys = <<"key">>
  /\ BagCardinality(prevDf) = 3
  /\ Cardinality(BagToSet(prevDf)) = 2
  /\ BagCardinality(prevLatest) = 1
  /\ latest = prevLatest

\* C10: a batch with exactly one event per key is returned as it is, each
\* row with the columns and values it came with; so resolving a resolved
\* output returns it.
C10_ResolveIdempotent ==
  pc = "returned" =>
    /\ OnePerKey(df) => latest = df
    /\ step = "resolved" => (latest = prevLatest /\ latest = df)
    /\ \A r \in BagToSet(latest) : DOMAIN r = DfColumns(df)

C10_Witness ==
  /\ pc = "returned"
  /\ step = "resolved"
  /\ BagCardinality(prevDf) = 2
  /\ KeysOf(df) = {Some("K1"), Null}
  /\ latest = df

\* C11: a call on a batch that lacks the key, sequence or event-time column
\* raises and returns no records, and the call on the other entity type's
\* batch, made after it, resolves that batch as usual: one record per key,
\* each first in the order of its key's events.
C11_SchemaMismatch ==
  /\ (pc \in {"returned", "raised"} /\ step = "lost") =>
       (pc = "raised" /\ latest = NoRows)
  /\ (pc = "returned" /\ step = "next") =>
       /\ KeysOf(latest) = KeysOf(df)
       /\ OnePerKey(latest)
       /\ \A r \in BagToSet(latest) : r \in TopOfKey(df, r[KeyCol])

C11_Witness ==
  /\ pc = "returned"
  /\ step = "next"
  /\ SeqCol \notin DfColumns(prevDf)
  /\ prevLatest = NoRows
  /\ \E a, b \in BagToSet(df) :
       /\ a[KeyCol] = b[KeyCol]
       /\ a[SeqCol] = Some(2)
       /\ b[SeqCol] = Some(1)
       /\ BagToSet(latest) = {a}

\* the key tuples of b under the key columns kc
TuplesOf(b, kc) == {[i \in DOMAIN kc |-> r[kc[i]]] : r \in BagToSet(b)}

RowsOfTuple(b, kc, t) ==
  {r \in BagToSet(b) : \A i \in DOMAIN kc : r[kc[i]] = t[i]}

\* C12: with a key of two columns, events compete exactly when they agree
\* on both: the call returns one record for each distinct key tuple of its
\* input, the first in the order among the events with that tuple, so events
\* that share only one key column each keep a record.
C12_CompositeKey ==
  (pc \in {"returned", "raised"} /\ step = "composite") =>
    /\ pc = "returned"
    /\ TuplesOf(latest, CompositeKey) = TuplesOf(df, CompositeKey)
    /\ BagCardinality(latest) = Cardinality(TuplesOf(df, CompositeKey))
    /\ \A r \in BagToSet(latest) :
         /\ latest[r] = 1
         /\ r \in BagToSet(df)
         /\ \A q \in BagToSet(df) :
              SameOn(q, r, Range(CompositeKey)) =>
                ~Before(q, r, <<SeqCol, TsCol>>)

C12_Witness ==
  /\ pc = "returned"
  /\ step = "composite"
  /\ \E a, b \in BagToSet(df) :
       /\ a["key"] = b["key"]
       /\ a["op"] # b["op"]
       /\ a[SeqCol] = Some(2)
       /\ b[SeqCol] = Some(1)
       /\ latest = SetToBag({a, b})

\* C13: every event of day 1 is an insert with seqNum 1, and every event
\* written on a later day has a seqNum greater than the seqNum of every
\* event written for the same key on an earlier day.
C13_SeqChain ==
  /\ day >= 1 =>
       \A i \in DOMAIN files[1] :
         files[1][i].op = "I" /\ files[1][i].seqNum = 1
  /\ \A d \in 2..day : \A e \in 1..(d - 1) :
       \A i \in DOMAIN files[d] : \A j \in DOMAIN files[e] :
         files[d][i].customerId = files[e][j].customerId =>
           /\ files[d][i].op \in {"U", "D"}
           /\ files[d][i].seqNum > files[e][j].seqNum

====
